---- MODULE Spec2Model ----
(***************************************************************************)
(* Model of src/kmn.py: the kernel-center sampler sample_center_points     *)
(* with its strategies, and the loss bookkeeping of KernelMixtureNetwork   *)
(* (fit / partial_fit).                                                    *)
(*                                                                         *)
(* NumPy arrays are views [buf, off, len] onto buffers of a heap, so that  *)
(* aliasing between the caller's array and the arrays the code creates is  *)
(* part of the state.  Numbers are integers; a mean is rounded down to the *)
(* model's resolution.                                                     *)
(***************************************************************************)
EXTENDS Integers, Sequences, FiniteSets, TLC

VARIABLES
    heap,            \* buffer name -> contents (the arrays' data)
    method,          \* sample_center_points: parameter `method` (rebound at line 65)
    k,               \* parameter `k` (rebound at line 77)
    keep_edges,      \* parameter `keep_edges`
    y,               \* parameter `y` (rebound at lines 68, 73, 75), a view
    centers,         \* local `centers`, a view
    cluster_centers, \* local `cluster_centers`, a view
    pc,              \* position inside sample_center_points
    outcome,         \* how the call ended: [kind, msg]
    result,          \* the returned array, a view
    warnings_out,    \* warnings emitted so far by the call
    invoked,         \* the strategy invocations of the call: <<[y, k, out]>>
    targets,         \* contents of the caller's array when the call was made
    method_arg,      \* the `method` argument as passed
    k_arg,           \* the `k` argument as passed
    touched,         \* the caller has written into the returned array
    est,             \* KernelMixtureNetwork: constructor parameters kept on self
    train_loss,      \* self.train_loss
    test_loss,       \* self.test_loss
    fitted,          \* self.fitted
    inference,       \* self.inference is not None
    y_ph,            \* self.y_ph: "none", "fed" (the placeholder self.inference reads) or "new"
    kpc,             \* position inside fit / partial_fit
    kcall,           \* the running estimator call: [op, n_epoch, eval_set, i]
    kout,            \* how the last estimator call ended
    hist             \* bookkeeping of the calls made since construction

svars == <<heap, method, k, keep_edges, y, centers, cluster_centers, pc, outcome,
           result, warnings_out, invoked, targets, method_arg, k_arg, touched>>
kvars == <<est, train_loss, test_loss, fitted, inference, y_ph, kpc, kcall, kout, hist>>
vars == <<heap, method, k, keep_edges, y, centers, cluster_centers, pc, outcome,
          result, warnings_out, invoked, targets, method_arg, k_arg, touched,
          est, train_loss, test_loss, fitted, inference, y_ph, kpc, kcall, kout, hist>>

(***************************************************************************)
(* Bounds of the model and constants of the program.                       *)
(***************************************************************************)
MaxLen == 3
BigExtra == 1
MaxKmnLen == 1
MaxEpoch == 2
MaxLoss == 3
DefaultK == 100
DefaultNCenters == 20

Values == {1, 2, 3}
Ks == {-1, 0, 1, 2, 3, DefaultK}

RECURSIVE SeqsUpTo(_)
SeqsUpTo(n) ==
    IF n = 0 THEN {<<>>}
    ELSE SeqsUpTo(n - 1) \cup {Append(s, v) : s \in {t \in SeqsUpTo(n - 1) : Len(t) = n - 1}, v \in Values}

\* A long, unsorted observation vector: unique minimum 0 and maximum n + 1,
\* repeated values in between.
BigInput(n) ==
    [i \in 1..n |->
        LET v == (7 * i) % n IN
        IF v = 0 THEN 0
        ELSE IF v = n - 1 THEN n + 1
        ELSE 10 * ((v + 9) \div 10)]

BigInputs == {BigInput(DefaultK + e) : e \in 0..BigExtra}
Inputs == SeqsUpTo(MaxLen) \cup BigInputs
\* The targets given to fit: short ones, and one as long as the default k.
KmnInputs == SeqsUpTo(MaxKmnLen) \cup {BigInput(DefaultK)}

(***************************************************************************)
(* Values of the program.                                                  *)
(***************************************************************************)
Fn(name) == [kind |-> "fn", name |-> name]
Str(name) == [kind |-> "str", name |-> name]
None == [kind |-> "none", name |-> "None"]

random_fn == Fn("random_sampler")
all_fn == Fn("all_sampler")
k_means_fn == Fn("k_means_sampler")
agglomerative_fn == Fn("agglomerative_sampler")
distance_fn == Fn("distance_sampler")
fixed_fn == Fn("fixed_sampler")

Functions == {random_fn, all_fn, k_means_fn, agglomerative_fn, distance_fn, fixed_fn}
Names == {"random", "distance", "k_means", "agglomerative", "bogus"}
Methods == Functions \cup {Str(n) : n \in Names} \cup {None}

NoOutcome == [kind |-> "none", msg |-> <<>>]
Returned == [kind |-> "returned", msg |-> <<>>]
Raise(kind, msg) == [kind |-> kind, msg |-> msg]

\* Names bound in the module's global namespace: the imports of lines 1-10
\* and the module's own definitions.
ModuleGlobals ==
    {"np", "KMeans", "AgglomerativeClustering", "pd", "BaseEstimator",
     "Categorical", "Mixture", "Normal", "Dense", "Dropout", "math", "ed", "tf",
     "plt", "random_sampler", "all_sampler", "k_means_sampler",
     "agglomerative_sampler", "distance_sampler", "fixed_sampler",
     "sampler_from_name", "sample_center_points", "KernelMixtureNetwork"}

\* Evaluating a global name: bound, or NameError.
NameDefined(name) == name \in ModuleGlobals

(***************************************************************************)
(* Arrays.                                                                 *)
(***************************************************************************)
Bufs == {"in", "sorted", "centers", "clusters", "out"}
NoArr == [buf |-> "none", off |-> 0, len |-> 0]
Whole(b, s) == [buf |-> b, off |-> 0, len |-> Len(s)]
Contents(h, a) == IF a.buf = "none" THEN <<>> ELSE SubSeq(h[a.buf], a.off + 1, a.off + a.len)
EmptyHeap == [b \in Bufs |-> <<>>]

Range(s) == {s[i] : i \in 1..Len(s)}

\* The sequence with the values of the function f on 1..n.
AsSeq(f, n) == SubSeq(f, 1, n)

\* The elements of s in ascending order: position p holds the element of rank p.
SortAsc(s) ==
    LET n == Len(s)
        rank == AsSeq([i \in 1..n |->
                    Cardinality({j \in 1..n : s[j] < s[i] \/ (s[j] = s[i] /\ j < i)}) + 1], n)
        at == AsSeq([p \in 1..n |-> CHOOSE i \in 1..n : rank[i] = p], n)
    IN  AsSeq([p \in 1..n |-> s[at[p]]], n)

\* y.ravel(): a one-dimensional contiguous array is returned as a view of itself.
ravel(a) == a

\* np.sort(y): a sorted copy in a new buffer.
np_sort(h, a) ==
    [heap |-> [h EXCEPT !["sorted"] = SortAsc(Contents(h, a))],
     arr |-> [buf |-> "sorted", off |-> 0, len |-> a.len]]

\* [y[0], y[0]]: the last element is not read.
EdgeValuesFirstTwice(s) == <<s[1], s[1]>>

\* [y[0], y[-1]] of a non-empty array.
EdgeValues(s) == <<s[1], s[Len(s)]>>

\* y[1:-1]: a view without the first and the last element.
Interior(a) ==
    [buf |-> a.buf,
     off |-> a.off + (IF a.len >= 1 THEN 1 ELSE 0),
     len |-> IF a.len >= 2 THEN a.len - 2 ELSE 0]

\* k -= 1
AdjustKByOne(kv) == kv - 1

\* k -= 2
AdjustK(kv) == kv - 2

\* np.append returning its second argument when the first is empty.
np_append_alias(h, a, b) ==
    IF a.len = 0 THEN [heap |-> h, arr |-> b]
    ELSE [heap |-> [h EXCEPT !["out"] = Contents(h, a) \o Contents(h, b)],
          arr |-> [buf |-> "out", off |-> 0, len |-> a.len + b.len]]

\* np.append(centers, cluster_centers): always a new, flattened array.
np_append(h, a, b) ==
    [heap |-> [h EXCEPT !["out"] = Contents(h, a) \o Contents(h, b)],
     arr |-> [buf |-> "out", off |-> 0, len |-> a.len + b.len]]

(***************************************************************************)
(* The strategies.  Each gives the set of ways the call can end:           *)
(* [kind |-> "ok", val, same] (same: the argument itself is returned) or   *)
(* [kind |-> an exception].                                                *)
(***************************************************************************)
Ok(val) == [kind |-> "ok", val |-> val, same |-> FALSE]
Fails(kind) == [kind |-> kind, val |-> <<>>, same |-> FALSE]

RECURSIVE KSubsets(_, _)
\* The subsets of S (a set of integers) with d elements.
KSubsets(S, d) ==
    IF d = 0 THEN {{}}
    ELSE IF d > Cardinality(S) THEN {}
    ELSE UNION {{T \cup {x} : T \in KSubsets({z \in S : z < x}, d - 1)} : x \in S}

Kept(n, E) == SelectSeq([i \in 1..n |-> i], LAMBDA i : i \notin E)

\* A draw that repeats its first element in the last place (replace=True).
random_sampler_repeats(s, kv) ==
    LET n == Len(s) IN
    IF kv < 0 \/ kv > n \/ (n = 0 /\ kv # 0) THEN {Fails("ValueError")}
    ELSE IF n = 0 THEN {Ok(<<>>), Fails("ValueError")}
    ELSE {Ok([p \in 1..kv |-> IF p = kv THEN s[Kept(n, E)[1]] ELSE s[Kept(n, E)[p]]])
            : E \in KSubsets(1..n, n - kv)}

\* np.random.choice(y, k, replace=False): k distinct positions of y.  The
\* positions left out are any n - k of them; the order of the draw is
\* represented by the two orders ascending and descending position.
\* An empty y with k = 0 is returned or rejected, depending on the NumPy version.
random_sampler(s, kv) ==
    LET n == Len(s) IN
    IF kv < 0 \/ kv > n \/ (n = 0 /\ kv # 0) THEN {Fails("ValueError")}
    ELSE IF n = 0 THEN {Ok(<<>>), Fails("ValueError")}
    ELSE UNION {
            LET kept == Kept(n, E) IN
            {Ok([p \in 1..kv |-> s[kept[p]]]), Ok([p \in 1..kv |-> s[kept[kv + 1 - p]]])}
            : E \in KSubsets(1..n, n - kv)}

\* return y
all_sampler(s, kv) == {[kind |-> "ok", val |-> s, same |-> TRUE]}

RECURSIVE Sum(_, _, _)
Sum(s, lo, hi) == IF lo > hi THEN 0 ELSE s[lo] + Sum(s, lo + 1, hi)

Mean(s, lo, hi) == Sum(s, lo, hi) \div (hi - lo + 1)

\* The clusters of the sorted values srt when the gaps in M are closed (gap g
\* lies between positions g and g+1): one mean per cluster, in ascending order.
ClusterMeans(srt, M) ==
    LET n == Len(srt)
        cuts == Kept(n - 1, M)
        c == Len(cuts) + 1
    IN  [j \in 1..c |->
            Mean(srt, IF j = 1 THEN 1 ELSE cuts[j - 1] + 1, IF j = c THEN n ELSE cuts[j])]

\* KMeans(n_clusters=k).fit(y.reshape(-1, 1)).cluster_centers_: k centroids of a
\* partition of the values into k non-empty intervals; which partition Lloyd's
\* algorithm ends in depends on its random start.
k_means_sampler(s, kv) ==
    LET n == Len(s) IN
    IF n = 0 \/ kv <= 0 \/ kv > n THEN {Fails("ValueError")}
    ELSE LET srt == SortAsc(s)
         IN  {Ok(ClusterMeans(srt, M)) : M \in KSubsets(1..(n - 1), n - kv)}

RECURSIVE LeftEnd(_, _)
LeftEnd(M, g) == IF (g - 1) \in M THEN LeftEnd(M, g - 1) ELSE g
RECURSIVE RightEnd(_, _)
RightEnd(M, g) == IF (g + 1) \in M THEN RightEnd(M, g + 1) ELSE g + 1

\* Complete linkage of the two clusters on either side of gap g.
Linkage(srt, M, g) == srt[RightEnd(M, g)] - srt[LeftEnd(M, g)]

RECURSIVE Merges(_, _, _)
\* The sets of gaps closed after d more merges, each of a closest pair.
Merges(srt, M, d) ==
    IF d = 0 THEN {M}
    ELSE LET open == (1..(Len(srt) - 1)) \ M
             best == {g \in open : \A h \in open : Linkage(srt, M, g) <= Linkage(srt, M, h)}
         IN  UNION {Merges(srt, M \cup {g}, d - 1) : g \in best}

\* AgglomerativeClustering(n_clusters=k, linkage='complete'), then the mean of
\* y per label.  At least two samples are required.
agglomerative_sampler(s, kv) ==
    LET n == Len(s) IN
    IF n < 2 \/ kv <= 0 \/ kv > n THEN {Fails("ValueError")}
    ELSE LET srt == SortAsc(s)
         IN  {Ok(ClusterMeans(srt, M)) : M \in Merges(srt, {}, n - kv)}

\* raise NotImplementedError
distance_sampler(s, kv) == {Fails("NotImplementedError")}

\* return np.array([1, 2, 3, 4, 5])
fixed_sampler(s, kv) == {Ok(<<1, 2, 3, 4, 5>>)}

\* method(y, k) for a function of the module.
Apply(m, s, kv) ==
    CASE m.name = "random_sampler" -> random_sampler(s, kv)
      [] m.name = "all_sampler" -> all_sampler(s, kv)
      [] m.name = "k_means_sampler" -> k_means_sampler(s, kv)
      [] m.name = "agglomerative_sampler" -> agglomerative_sampler(s, kv)
      [] m.name = "distance_sampler" -> distance_sampler(s, kv)
      [] OTHER -> fixed_sampler(s, kv)

\* The registry lookup: the function, or ValueError naming the identifier.
sampler_from_name(m) ==
    CASE m.kind = "none" -> [ok |-> TRUE, fn |-> all_fn, msg |-> <<>>]
      [] m.name = "random" -> [ok |-> TRUE, fn |-> random_fn, msg |-> <<>>]
      [] m.name = "distance" -> [ok |-> TRUE, fn |-> distance_fn, msg |-> <<>>]
      [] m.name = "k_means" -> [ok |-> TRUE, fn |-> k_means_fn, msg |-> <<>>]
      [] m.name = "agglomerative" -> [ok |-> TRUE, fn |-> agglomerative_fn, msg |-> <<>>]
      [] OTHER -> [ok |-> FALSE, fn |-> m, msg |-> <<"unknown method", m.name>>]

\* warnings.warn(msg, DeprecationWarning): the name `warnings` is evaluated first.
WarnRaises == ~NameDefined("warnings")
WarnError == Raise("NameError", <<"name", "warnings", "is not defined">>)


(***************************************************************************)
(* sample_center_points(y, method=None, k=100, keep_edges=False)           *)
(***************************************************************************)
\* Entering the function: the parameters are bound; y is the caller's array.
StartCall(t, m, kv, ke) ==
    /\ heap' = [EmptyHeap EXCEPT !["in"] = t]
    /\ y' = Whole("in", t)
    /\ method' = m
    /\ k' = kv
    /\ keep_edges' = ke
    /\ centers' = NoArr
    /\ cluster_centers' = NoArr
    /\ pc' = "l60"
    /\ outcome' = NoOutcome
    /\ result' = NoArr
    /\ warnings_out' = <<>>
    /\ invoked' = <<>>
    /\ targets' = t
    /\ method_arg' = m
    /\ k_arg' = kv
    /\ touched' = FALSE

\* No call is running: the frame of the last call is gone.
NoCallRunning ==
    /\ heap = EmptyHeap
    /\ y = NoArr
    /\ method = None
    /\ k = DefaultK
    /\ keep_edges = FALSE
    /\ centers = NoArr
    /\ cluster_centers = NoArr
    /\ pc = "idle"
    /\ outcome = NoOutcome
    /\ result = NoArr
    /\ warnings_out = <<>>
    /\ invoked = <<>>
    /\ targets = <<>>
    /\ method_arg = None
    /\ k_arg = DefaultK
    /\ touched = FALSE

\* A caller calls sample_center_points.
Call ==
    /\ pc = "idle"
    /\ kpc = "idle"
    /\ \E t \in Inputs, m \in Methods, kv \in Ks, ke \in BOOLEAN : StartCall(t, m, kv, ke)
    /\ UNCHANGED kvars

\* Lines 60-61: if k != 100: warnings.warn(...)
CheckK ==
    /\ pc = "l60"
    /\ LET warn == k # DefaultK
           fail == warn /\ WarnRaises
       IN  /\ pc' = IF fail THEN "done" ELSE "l63"
           /\ outcome' = IF fail THEN WarnError ELSE outcome
           /\ warnings_out' = IF warn /\ ~fail THEN Append(warnings_out, "k") ELSE warnings_out
    /\ UNCHANGED <<heap, method, k, keep_edges, y, centers, cluster_centers, result,
                   invoked, targets, method_arg, k_arg, touched>>
    /\ UNCHANGED kvars

\* Lines 63-65: a string or None is warned about, then looked up in the registry.
ResolveMethod ==
    /\ pc = "l63"
    /\ LET byname == method.kind \in {"str", "none"}
           looked == sampler_from_name(method)
           fail == byname /\ (WarnRaises \/ ~looked.ok)
       IN  /\ pc' = IF fail THEN "done" ELSE "l68"
           /\ outcome' = IF ~fail THEN outcome
                         ELSE IF WarnRaises THEN WarnError
                         ELSE Raise("ValueError", looked.msg)
           /\ warnings_out' = IF byname /\ ~WarnRaises THEN Append(warnings_out, "method")
                              ELSE warnings_out
           /\ method' = IF byname /\ ~fail THEN looked.fn ELSE method
    /\ UNCHANGED <<heap, k, keep_edges, y, centers, cluster_centers, result,
                   invoked, targets, method_arg, k_arg, touched>>
    /\ UNCHANGED kvars

\* Lines 68-71: y = y.ravel(); centers = np.empty(0)
Flatten ==
    /\ pc = "l68"
    /\ y' = ravel(y)
    /\ heap' = [heap EXCEPT !["centers"] = <<>>]
    /\ centers' = Whole("centers", <<>>)
    /\ pc' = "l72"
    /\ UNCHANGED <<method, k, keep_edges, cluster_centers, outcome, result, warnings_out,
                   invoked, targets, method_arg, k_arg, touched>>
    /\ UNCHANGED kvars

\* Lines 72-77: with keep_edges the sorted copy gives the two edges (IndexError on
\* an empty array), y becomes its interior and k is lowered by two.
Trim ==
    /\ pc = "l72"
    /\ LET s == np_sort(heap, y)
           empty == keep_edges /\ s.arr.len = 0
           edges == IF keep_edges /\ ~empty THEN EdgeValues(Contents(s.heap, s.arr)) ELSE <<>>
       IN  /\ pc' = IF empty THEN "done" ELSE "l79"
           /\ outcome' = IF empty THEN Raise("IndexError", <<>>) ELSE outcome
           /\ heap' = IF ~keep_edges THEN heap
                      ELSE IF empty THEN s.heap
                      ELSE [s.heap EXCEPT !["centers"] = edges]
           /\ y' = IF ~keep_edges THEN y ELSE IF empty THEN s.arr ELSE Interior(s.arr)
           /\ centers' = IF keep_edges /\ ~empty THEN Whole("centers", edges) ELSE centers
           /\ k' = IF keep_edges /\ ~empty THEN AdjustK(k) ELSE k
    /\ UNCHANGED <<method, keep_edges, cluster_centers, result, warnings_out,
                   invoked, targets, method_arg, k_arg, touched>>
    /\ UNCHANGED kvars

\* Line 79: cluster_centers = method(y, k)
Invoke ==
    /\ pc = "l79"
    /\ \E r \in Apply(method, Contents(heap, y), k) :
         /\ invoked' = Append(invoked, [y |-> Contents(heap, y), k |-> k, out |-> r.val])
         /\ pc' = IF r.kind = "ok" THEN "l80" ELSE "done"
         /\ outcome' = IF r.kind = "ok" THEN outcome ELSE Raise(r.kind, <<>>)
         /\ heap' = IF r.kind = "ok" /\ ~r.same THEN [heap EXCEPT !["clusters"] = r.val] ELSE heap
         /\ cluster_centers' = IF r.kind # "ok" THEN cluster_centers
                               ELSE IF r.same THEN y
                               ELSE Whole("clusters", r.val)
    /\ UNCHANGED <<method, k, keep_edges, y, centers, result, warnings_out,
                   targets, method_arg, k_arg, touched>>
    /\ UNCHANGED kvars

\* Line 80: return np.append(centers, cluster_centers)
Return ==
    /\ pc = "l80"
    /\ LET r == np_append(heap, centers, cluster_centers)
       IN  /\ heap' = r.heap
           /\ result' = r.arr
    /\ pc' = "done"
    /\ outcome' = Returned
    /\ UNCHANGED <<method, k, keep_edges, y, centers, cluster_centers, warnings_out,
                   invoked, targets, method_arg, k_arg, touched>>
    /\ UNCHANGED kvars

\* After the call the caller owns the returned array and may write into it.
CallerWrites ==
    /\ pc = "done"
    /\ kpc = "idle"
    /\ outcome.kind = "returned"
    /\ ~touched
    /\ result.len > 0
    /\ \E i \in {1, result.len}, v \in {-7} :
         heap' = [heap EXCEPT ![result.buf][result.off + i] = v]
    /\ touched' = TRUE
    /\ UNCHANGED <<method, k, keep_edges, y, centers, cluster_centers, pc, outcome, result,
                   warnings_out, invoked, targets, method_arg, k_arg>>
    /\ UNCHANGED kvars

(***************************************************************************)
(* KernelMixtureNetwork: __init__, fit, partial_fit, _build_model          *)
(***************************************************************************)
KCenters == {2, DefaultNCenters, DefaultK}
Estimators == [center_sampling_method : Methods, n_centers : KCenters, keep_edges : BOOLEAN]
\* KernelMixtureNetwork() with the defaults of line 86.
DefaultEstimator ==
    [center_sampling_method |-> Str("k_means"), n_centers |-> DefaultNCenters, keep_edges |-> FALSE]

NoKCall == [op |-> "none", n_epoch |-> 0, eval_set |-> FALSE, i |-> 0]
NoHist == [epochs_run |-> 0, evals_run |-> 0, requested |-> 0, requested_eval |-> 0,
           fits_done |-> 0, fit_trained |-> FALSE]

\* Lines 104-126: the state __init__ leaves.
Constructed(e) ==
    /\ est = e
    /\ train_loss = <<>>
    /\ test_loss = <<>>
    /\ fitted = FALSE
    /\ inference = FALSE
    /\ y_ph = "none"
    /\ kpc = "idle"
    /\ kcall = NoKCall
    /\ kout = "none"
    /\ hist = NoHist

\* self.train_loss = [loss]: the history is overwritten.
AppendLossOverwrites(losses, loss) == <<loss>>

\* np.append(self.train_loss, -train_loss)
AppendLoss(losses, loss) == Append(losses, loss)

\* Line 228: tf.ones((batch_size, n_locs)) * locs needs len(locs) to be n_locs or 1.
Broadcasts(n_locs, len) == len = n_locs \/ len = 1

\* The frame of sample_center_points is dropped when _build_model is left.
DropFrame ==
    /\ heap' = EmptyHeap
    /\ y' = NoArr
    /\ method' = None
    /\ k' = DefaultK
    /\ keep_edges' = FALSE
    /\ centers' = NoArr
    /\ cluster_centers' = NoArr
    /\ pc' = "idle"
    /\ outcome' = NoOutcome
    /\ result' = NoArr
    /\ warnings_out' = <<>>
    /\ invoked' = <<>>
    /\ targets' = <<>>
    /\ method_arg' = None
    /\ k_arg' = DefaultK
    /\ touched' = FALSE

\* The running call ends with an exception: nothing more of it runs.
KFails(kind) ==
    /\ kpc' = "idle"
    /\ kcall' = NoKCall
    /\ kout' = kind

\* The running call returns.
KReturns ==
    /\ kpc' = "idle"
    /\ kout' = "returned"
    /\ kcall' = NoKCall

Completed(h, c) ==
    [h EXCEPT !.requested = @ + c.n_epoch,
              !.requested_eval = @ + (IF c.eval_set THEN c.n_epoch ELSE 0),
              !.fits_done = @ + (IF c.op = "fit" THEN 1 ELSE 0)]

\* fit(X, y, n_epoch, **kwargs), lines 133, 208 and 226-227: _build_model makes a
\* new target placeholder and asks for the centers.
Fit ==
    /\ kpc = "idle"
    /\ pc = "idle"
    /\ \E t \in KmnInputs, n \in 0..MaxEpoch, ev \in BOOLEAN :
         /\ Len(train_loss) + n <= MaxLoss
         /\ kcall' = [op |-> "fit", n_epoch |-> n, eval_set |-> ev, i |-> 0]
         /\ StartCall(t, est.center_sampling_method, est.n_centers, est.keep_edges)
    /\ kpc' = "build"
    /\ kout' = "running"
    /\ y_ph' = "new"
    /\ UNCHANGED <<est, train_loss, test_loss, fitted, inference, hist>>

\* Lines 227-259 and 136-141: an exception of the sampler or of the broadcast
\* ends fit; otherwise the inference is set up and partial_fit is entered.
BuildReturn ==
    /\ kpc = "build"
    /\ pc = "done"
    /\ LET built == outcome.kind = "returned" /\ Broadcasts(est.n_centers, result.len)
       IN  /\ kpc' = IF built THEN "loop" ELSE "idle"
           /\ kcall' = IF built THEN kcall ELSE NoKCall
           /\ kout' = IF built THEN kout
                      ELSE IF outcome.kind = "returned" THEN "ValueError"
                      ELSE outcome.kind
           /\ inference' = IF built THEN TRUE ELSE inference
           /\ y_ph' = IF built THEN "fed" ELSE y_ph
    /\ DropFrame
    /\ UNCHANGED <<est, train_loss, test_loss, fitted, hist>>

\* partial_fit(X, y, n_epoch=1, eval_set=None) called by the user.
PartialFit ==
    /\ kpc = "idle"
    /\ pc = "idle"
    /\ \E n \in 0..MaxEpoch, ev \in BOOLEAN :
         /\ Len(train_loss) + n <= MaxLoss
         /\ kcall' = [op |-> "partial_fit", n_epoch |-> n, eval_set |-> ev, i |-> 0]
    /\ kpc' = "loop"
    /\ kout' = "running"
    /\ UNCHANGED <<est, train_loss, test_loss, fitted, inference, y_ph, hist>>
    /\ UNCHANGED svars

\* Lines 151-166: one epoch.  self.inference.update on None is an AttributeError;
\* after a _build_model that failed past line 208, self.y_ph is no longer the
\* placeholder the inference reads, and the update fails for want of its value.
Epoch ==
    /\ kpc = "loop"
    /\ kcall.i < kcall.n_epoch
    /\ IF ~inference \/ y_ph # "fed"
       THEN /\ KFails(IF ~inference THEN "AttributeError" ELSE "InvalidArgumentError")
            /\ UNCHANGED <<train_loss, test_loss, hist>>
       ELSE /\ train_loss' = AppendLoss(train_loss, kcall.i)
            /\ test_loss' = IF kcall.eval_set THEN AppendLoss(test_loss, kcall.i) ELSE test_loss
            /\ kcall' = [kcall EXCEPT !.i = @ + 1]
            /\ hist' = [hist EXCEPT !.epochs_run = @ + 1,
                                    !.evals_run = @ + (IF kcall.eval_set THEN 1 ELSE 0)]
            /\ UNCHANGED <<kpc, kout>>
    /\ UNCHANGED <<est, fitted, inference, y_ph>>
    /\ UNCHANGED svars

\* Lines 168-172: after the loop.  With no epoch run the local train_loss is
\* unbound (UnboundLocalError).  partial_fit returns to fit, or to the user.
LoopExit ==
    /\ kpc = "loop"
    /\ ~(kcall.i < kcall.n_epoch)
    /\ IF kcall.i = 0
       THEN /\ KFails("UnboundLocalError")
            /\ UNCHANGED hist
       ELSE IF kcall.op = "fit"
       THEN /\ kpc' = "l142"
            /\ hist' = [hist EXCEPT !.fit_trained = TRUE]
            /\ UNCHANGED <<kcall, kout>>
       ELSE /\ KReturns
            /\ hist' = Completed(hist, kcall)
    /\ UNCHANGED <<est, train_loss, test_loss, fitted, inference, y_ph>>
    /\ UNCHANGED svars

\* Line 142: self.fitted = True, and fit returns.
FitFinish ==
    /\ kpc = "l142"
    /\ fitted' = TRUE
    /\ KReturns
    /\ hist' = Completed(hist, kcall)
    /\ UNCHANGED <<est, train_loss, test_loss, inference, y_ph>>
    /\ UNCHANGED svars

(***************************************************************************)
(* Specifications.                                                         *)
(***************************************************************************)
\* Calls of sample_center_points by a user of the module.
Init == NoCallRunning /\ Constructed(DefaultEstimator)

Next ==
    \/ Call
    \/ CheckK
    \/ ResolveMethod
    \/ Flatten
    \/ Trim
    \/ Invoke
    \/ Return
    \/ CallerWrites

Spec == Init /\ [][Next]_vars

\* A KernelMixtureNetwork, constructed with any of the parameters, used through
\* fit and partial_fit.
InitKMN == NoCallRunning /\ \E e \in Estimators : Constructed(e)

NextKMN ==
    \/ Fit
    \/ PartialFit
    \/ CheckK
    \/ ResolveMethod
    \/ Flatten
    \/ Trim
    \/ Invoke
    \/ Return
    \/ BuildReturn
    \/ Epoch
    \/ LoopExit
    \/ FitFinish

SpecKMN == InitKMN /\ [][NextKMN]_vars


(***************************************************************************)
(* Properties.                                                             *)
(***************************************************************************)
ResultVal == Contents(heap, result)
HasReturned == pc = "done" /\ outcome.kind = "returned"
MinOf(s) == CHOOSE v \in Range(s) : \A w \in Range(s) : v <= w
MaxOf(s) == CHOOSE v \in Range(s) : \A w \in Range(s) : v >= w
Count(s, v) == Cardinality({i \in 1..Len(s) : s[i] = v})
SubBag(a, b) == \A v \in Range(a) : Count(a, v) <= Count(b, v)
SameBag(a, b) == SubBag(a, b) /\ SubBag(b, a)
IsSortedAsc(s) == \A i \in 1..(Len(s) - 1) : s[i] <= s[i + 1]

\* An invalid argument value is reported by ValueError; the message is kept in msg.
IsConfigurationError(o) == o.kind = "ValueError"

RegisteredNames == {"random", "distance", "k_means", "agglomerative"}
ClusteringStrategies ==
    {random_fn, k_means_fn, agglomerative_fn, Str("random"), Str("k_means"), Str("agglomerative")}

\* C1: with keep_edges, every array returned for a non-empty input contains the
\* minimum and the maximum of the input.
C1_EdgesInOutput ==
    (HasReturned /\ keep_edges /\ ~touched /\ targets # <<>>)
        => /\ MinOf(targets) \in Range(ResultVal)
           /\ MaxOf(targets) \in Range(ResultVal)

\* C1 witness: a call with keep_edges on an unsorted input of length 2 (empty
\* interior) has returned.
C1_Witness ==
    /\ HasReturned /\ keep_edges /\ ~touched
    /\ Len(targets) = 2
    /\ targets[1] > targets[2]

\* What the strategy works on, and how many centers it is asked for, when the
\* input is valid for a strategy that yields exactly its budget.
Available == IF keep_edges THEN Len(targets) - 2 ELSE Len(targets)
Budget == IF keep_edges THEN k_arg - 2 ELSE k_arg
ValidForClustering == Available >= 2 /\ 1 <= Budget /\ Budget <= Available

\* C2: for random, k_means and agglomerative and every valid input the call
\* returns an array of exactly k centers.
C2_ExactlyK ==
    (pc = "done" /\ method_arg \in ClusteringStrategies /\ ValidForClustering)
        => /\ outcome.kind = "returned"
           /\ result.len = k_arg

C4_RandomDrawsFromInput ==
    (HasReturned /\ ~touched /\ method_arg = random_fn) => SubBag(ResultVal, targets)

\* C4 witness: the random strategy has returned, with keep_edges, fewer centers
\* than there are input values.
C4_Witness ==
    /\ HasReturned /\ ~touched /\ keep_edges
    /\ method_arg = random_fn
    /\ result.len < Len(targets)

\* C5: with keep_edges and k < 2 the call ends in a configuration error, the
\* strategy is not invoked and no strategy is ever asked for a negative count.
C5_KeepEdgesNeedsTwo ==
    /\ \A i \in 1..Len(invoked) : invoked[i].k >= 0
    /\ (pc = "done" /\ keep_edges /\ k_arg < 2)
          => IsConfigurationError(outcome) /\ invoked = <<>>

\* C6: with k <= 0 the call ends in a configuration error and returns no array.
C6_NonPositiveK ==
    (pc = "done" /\ k_arg <= 0) => IsConfigurationError(outcome) /\ result = NoArr

\* C7: a strategy name that is not registered ends the call in the
\* unknown-strategy error, whose message names the identifier; the input is not
\* processed and no strategy is invoked.
C7_UnknownStrategy ==
    (pc = "done" /\ method_arg.kind = "str" /\ method_arg.name \notin RegisteredNames)
        => /\ outcome.kind = "ValueError"
           /\ method_arg.name \in Range(outcome.msg)
           /\ invoked = <<>>
           /\ y = Whole("in", targets)

\* The ways lines 68-80 end when the strategy function fn is passed directly.
Direct(t, fn, kv, ke) ==
    IF ke /\ t = <<>> THEN {[kind |-> "IndexError", val |-> <<>>]}
    ELSE LET srt == SortAsc(t)
             arg == IF ke THEN SubSeq(srt, 2, Len(srt) - 1) ELSE t
             edges == IF ke THEN <<srt[1], srt[Len(srt)]>> ELSE <<>>
         IN  {IF r.kind = "ok" THEN [kind |-> "returned", val |-> edges \o r.val]
              ELSE [kind |-> r.kind, val |-> <<>>]
                : r \in Apply(fn, arg, IF ke THEN kv - 2 ELSE kv)}

Deprecated ==
    \/ k_arg # DefaultK
    \/ method_arg.kind = "none"
    \/ method_arg.kind = "str" /\ method_arg.name \in RegisteredNames

\* C8: a call on a deprecated path (a registered name or no strategy, or a k
\* other than the default) emits a deprecation warning and ends as the call with
\* the corresponding function ends; the warning is not a failure.
C8_DeprecatedPathsWork ==
    (pc = "done" /\ ~touched /\ Deprecated /\ ~(method_arg.kind = "str" /\ method_arg.name \notin RegisteredNames))
        => /\ warnings_out # <<>>
           /\ outcome.kind # "NameError"
           /\ [kind |-> outcome.kind, val |-> ResultVal]
                 \in Direct(targets,
                            IF method_arg.kind = "fn" THEN method_arg
                            ELSE sampler_from_name(method_arg).fn,
                            k_arg, keep_edges)

\* C9: the caller's array holds its values in their order at every point of a
\* call and after it, also once the caller has written into the returned array,
\* which is an array of its own.
C9_InputNotMutated ==
    (pc # "idle") => /\ heap["in"] = targets
                     /\ HasReturned => result.buf # "in"

\* C9 witness: the identity strategy has returned the input's values without
\* keep_edges, and the caller has written into the returned array.
C9_Witness ==
    /\ HasReturned /\ touched /\ ~keep_edges
    /\ method_arg = all_fn
    /\ targets # <<>>

\* C10, state part: the losses count the epochs run, which between calls are the
\* epochs of the calls that completed; test_loss counts those with an eval_set;
\* fitted is false before a fit has run its epochs and true once a fit completed.
C10_Bookkeeping ==
    /\ Len(train_loss) = hist.epochs_run
    /\ Len(test_loss) = hist.evals_run
    /\ kpc = "idle" => /\ Len(train_loss) = hist.requested
                       /\ Len(test_loss) = hist.requested_eval
    /\ Len(test_loss) <= Len(train_loss)
    /\ fitted => hist.fit_trained
    /\ hist.fits_done > 0 => fitted

\* C10: the bookkeeping holds in every state, and fitted once true stays true.
C10_LossesAndFitted == []C10_Bookkeeping /\ [][fitted => fitted']_vars

\* C10 witness: after a completed fit and a later partial_fit, three epochs have
\* run, some with and some without an eval_set.
C10_Witness ==
    /\ kpc = "idle" /\ kout = "returned" /\ fitted
    /\ hist.fits_done = 1
    /\ hist.requested > hist.requested_eval
    /\ hist.requested_eval > 0
    /\ Len(train_loss) = hist.requested
    /\ Len(test_loss) = hist.requested_eval

====
